---- MODULE Spec2Model ----
(***************************************************************************)
(* Reactive cells of reaxive: ObservableValue (value, explicit subscribers *)
(* keyed by id, implicit weak links to observer callbacks), the            *)
(* thread-local CURRENT_OBSERVER slot and the ObserverContext guard.       *)
(*                                                                         *)
(* Spec: every action is one whole call of the public API, run to          *)
(* completion on one thread; callbacks are loggers, an invocation is       *)
(* recorded in `calls` and `delivered`.                                    *)
(* SpecStore, SpecStoreConc: StoreRegistry / StoreContext, one thread and  *)
(* two threads.                                                            *)
(* SpecConc: subscribe and unsubscribe from two threads.                   *)
(* SpecPoison: panics under a mutex guard and the calls that follow.       *)
(* SpecReent: callbacks that call get() and set() of the cells, followed   *)
(* step by step through notify_subscribers.                                *)
(* SpecCm: ContextManager.                                                 *)
(* SpecLocks, SpecLocksFair: two threads on one cell, followed lock by     *)
(* lock.                                                                   *)
(***************************************************************************)
EXTENDS Integers, Sequences, FiniteSets, TLC

\* ---------------------------------------------------------------- bounds
MaxSteps == 6       \* API calls in one run
MaxSubs == 2        \* subscribe calls per cell
MaxObservers == 2   \* ObserverContext::new calls in one run
MaxHandles == 2     \* live ObserverContext values sharing one callback
MaxStoreOps == 5    \* registry and store-handle calls in one run
MaxCalls == 5       \* top-level calls in a run with callbacks that call back
MaxContexts == 4    \* StoreContext values constructed by one ContextManager
MaxLockCalls == 3   \* calls made by the threads that share a cell

\* ---------------------------------------------------------------- inputs
Cells == {1, 2}
InitialValue == 0          \* ObservableValue::new(0)
SetArgs == {1, 2}          \* set(v)
UpdateArgs == {10}         \* update(|v| *v += k)
MapArgs == {2}             \* map(|v| *v * k)
WhenArgs == {1}            \* when(|v| *v >= k)
Observers == 1..MaxObservers
Ids == 0..(MaxSubs - 1)
None == 0                  \* Option::None in CURRENT_OBSERVER
Threads == {1, 2}
Types == {1, 2}            \* TypeId of the bundle types S1, S2
Names == {"default", "a", "b"}   \* context names
LockNames == {"value", "subscribers", "next_id"}   \* the three Mutex fields
CallbackSetArgs == {2}     \* the value a callback writes
NoBody == [op |-> "none", cell |-> 0, arg |-> 0]   \* a callback that only logs
\* What a callback does when invoked: nothing, get() of a cell, or set(v).
Bodies ==
    {NoBody} \cup {[op |-> "get", cell |-> c, arg |-> 0] : c \in Cells}
             \cup {[op |-> "set", cell |-> c, arg |-> v] :
                      c \in Cells, v \in CallbackSetArgs}
Groups == 1..(2 * MaxStoreOps + 2)   \* identities of allocated bundles of cells

VARIABLES
    value,              \* [Cells -> Int]            ObservableValue.value
    subscribers,        \* [Cells -> SUBSET Ids]     keys of ObservableValue.subscribers
    next_id,            \* [Cells -> Nat]            ObservableValue.next_id
    local_subscribers,  \* [Cells -> Seq(Observers)] ObservableValue.local_subscribers
    CURRENT_OBSERVER,   \* None or the observer whose Rc the slot holds
    handles,            \* [Observers -> Nat] live ObserverContext values per callback
    created,            \* number of ObserverContext::new calls so far
    borrowed,           \* observers whose callback RefCell is mutably borrowed
    ret,                \* result of the last call if it was get/map/subscribe
    retb,               \* result of the last call if it was when
    calls,              \* callback invocations made by the last call, in order
    lastOp,             \* the last API call: [op, cell, arg], cell 0 if not on a cell
    steps,              \* number of API calls so far
    writes,             \* [Cells -> Seq([op, arg])] the writes made to each cell
    delivered,          \* [Cells -> [Ids -> Seq(Int)]] values each subscriber received
    subscribedAt,       \* [Cells -> [Ids -> Nat]] Len(writes[c]) when id was issued
    unsubscribed,       \* [Cells -> SUBSET Ids] issued ids for which unsubscribe returned
    trackLog,           \* [Cells -> Seq(Observers)] slot content at each tracked read
    dropped,            \* observers of which an ObserverContext value was dropped
    \* --- StoreRegistry / StoreContext
    stores,             \* [Types -> Groups or 0] StoreRegistry.stores: the bundle per TypeId
    nGroups,            \* number of bundles constructed so far
    sValue,             \* [Groups -> Int] value of the cell of each bundle
    sSubs,              \* [Groups -> Nat] explicit subscribers of that cell
    sNotified,          \* callbacks invoked by the last set through a handle
    spc,                \* [Threads -> Types or 0] type whose get_or_create found no entry
    got,                \* Seq of handles returned: [t, type, g, epoch, via, subs]
    epoch,              \* [Types -> Nat] register/remove/clear calls that hit the type
    sOp,                \* the last registry call: [op, t, type, g, b, n, h]
    nStoreOps,          \* number of registry and handle calls so far
    \* --- callbacks that call back, locks, threads
    subBody,            \* [Cells -> [Ids -> Bodies]] what each explicit callback does
    obsBody,            \* [Observers -> Bodies] what each observer callback does
    locked,             \* cells whose `subscribers` mutex a running notification holds
    localBorrowed,      \* cells whose `local_subscribers` RefCell a running sweep holds
    poisoned,           \* [Cells -> SUBSET LockNames] mutexes poisoned by a panic
    stack,              \* the notifications in progress on the thread, innermost last
    outcome,            \* "idle", "running", "ok", "panic" or "deadlock"
    fail,               \* the call that panicked or blocked: [op, cell, from]
    nested,             \* writes made by callbacks: {[cell, from]}
    skipped,            \* callbacks a sweep passed over: {[cell, obs]}
    pc,                 \* [Threads -> [cell, id, body]] subscribe between its two locks
    issued,             \* Seq([t, cell, id, body]) ids in the order next_id gave them
    returned,           \* {<<cell, id>>} ids whose subscribe call has returned
    removedAfter,       \* {<<cell, id>>} returned ids since passed to unsubscribe
    pLast,              \* the last call on a cell with locks at stake: [op, cell, res, had]
    nCalls,             \* number of top-level calls so far
    \* --- ContextManager
    contexts,           \* [Names -> Nat] ContextManager.contexts: the context per name, 0 if none
    current,            \* ContextManager.current
    nContexts,          \* number of StoreContext values constructed so far
    cmLast,             \* the last ContextManager call: [op, name, res]
    \* --- threads sharing a cell, lock by lock
    lpc,                \* [Threads -> [op, cell, pc, arg, snap, mark]] where each thread is
    held,               \* [Threads -> SUBSET (Cells \X LockNames)] guards each thread holds
    hist,               \* [Cells -> Seq(Int)] the values the cell has held, oldest first
    deliveries,         \* [Cells -> [Ids -> Seq([val, from, upto])]] values passed to callbacks
    nWrites,            \* [Cells -> Nat] set/update calls started
    subAt,              \* [Cells -> [Ids -> Nat]] nWrites when the id was inserted
    unsubIds,           \* [Cells -> SUBSET Ids] ids passed to unsubscribe
    nLockCalls          \* number of calls started by the threads

storeVars == <<stores, nGroups, sValue, sSubs, sNotified, spc, got, epoch, sOp,
               nStoreOps>>

cellModelVars ==
    <<value, subscribers, next_id, local_subscribers, CURRENT_OBSERVER,
      handles, created, borrowed, ret, retb, calls, lastOp, steps, writes,
      delivered, subscribedAt, unsubscribed, trackLog, dropped>>

reentVars == <<locked, localBorrowed, stack, outcome, fail, nested, skipped>>
concVars == <<pc, issued, returned, removedAfter>>
poisonVars == <<poisoned, pLast>>
machVars == <<subBody, obsBody, reentVars, concVars, poisonVars, nCalls>>

cmVars == <<contexts, current, nContexts, cmLast>>
lockVars == <<lpc, held, hist, deliveries, nWrites, subAt, unsubIds,
              nLockCalls>>

vars == <<cellModelVars, storeVars, machVars, cmVars, lockVars>>

cellVars == <<value, subscribers, next_id, local_subscribers>>
obsVars == <<CURRENT_OBSERVER, handles, created, borrowed>>
histVars == <<writes, delivered, subscribedAt, unsubscribed, trackLog, dropped>>

\* ---------------------------------------------------------------- helpers
Range(s) == {s[i] : i \in 1..Len(s)}

\* Every order in which HashMap::values() can enumerate the keys S: the
\* order follows the hashes under the map's random keys, not the ids.
Orders(S) == {s \in [1..Cardinality(S) -> S] : Range(s) = S}

\* Rc strong count > 0: an ObserverContext value or the slot holds the Rc.
Alive(o) == handles[o] > 0 \/ CURRENT_OBSERVER = o

\* Weak::upgrade() of a link succeeds.
upgrade(o) == Alive(o)

\* RefCell::try_borrow_mut() of a callback succeeds.
try_borrow_mut(o) == o \notin borrowed

\* ------------------------------------------------------------ track_access
\* A plausible slip: only the first link is compared with the observer.
track_access_first_only(links, cur) ==
    IF cur = None THEN links
    ELSE IF Len(links) > 0 /\ links[1] = cur THEN links
    ELSE Append(links, cur)

\* A plausible slip: the link is pushed without looking for a duplicate.
track_access_no_dedup(links, cur) ==
    IF cur = None THEN links ELSE Append(links, cur)

\* The links of a cell after a read, given the content of the slot.
track_access(links, cur) ==
    IF cur = None THEN links
    ELSE IF \E i \in 1..Len(links) : links[i] = cur THEN links
    ELSE Append(links, cur)

\* -------------------------------------------------------- notify_subscribers
ExplicitCall(id, v) == [kind |-> "explicit", who |-> id, val |-> v]
ImplicitCall(o) == [kind |-> "implicit", who |-> o, val |-> 0]

\* The sweep of the implicit links: retain() keeps the upgradable ones.
retain(links) == SelectSeq(links, upgrade)

\* The links whose callback the sweep invokes.
invoked(links) == SelectSeq(retain(links), try_borrow_mut)

\* A plausible slip: the loop over the map misses its first entry.
notify_calls_skip_first(v, order, links) ==
    [i \in 1..(Len(order) - 1) |-> ExplicitCall(order[i + 1], v)]
        \o [i \in 1..Len(invoked(links)) |-> ImplicitCall(invoked(links)[i])]

\* A plausible slip: the sweep of the links runs before the explicit loop.
notify_calls_implicit_first(v, order, links) ==
    [i \in 1..Len(invoked(links)) |-> ImplicitCall(invoked(links)[i])]
        \o [i \in 1..Len(order) |-> ExplicitCall(order[i], v)]

\* The invocations of one notification: the snapshot v goes to the explicit
\* subscribers in the map's iteration order, then the live links are called
\* in list order.
notify_calls(v, order, links) ==
    [i \in 1..Len(order) |-> ExplicitCall(order[i], v)]
        \o [i \in 1..Len(invoked(links)) |-> ImplicitCall(invoked(links)[i])]

\* ------------------------------------------------------- value and id stores
\* A plausible slip: set() writes to a copy and the cell keeps its value.
set_store_lost(old, v) == old

\* `*self.value.lock().unwrap() = value`
set_store(old, v) == v

\* `updater(&mut *value)` for the updater |v| *v += k
update_apply(old, k) == old + k

\* A plausible slip: unsubscribe removes nothing.
remove_nothing(subs, id) == subs

\* A plausible slip: an absent id empties the map.
remove_or_clear(subs, id) == IF id \in subs THEN subs \ {id} ELSE {}

\* HashMap::remove(&id)
remove(subs, id) == subs \ {id}

\* A plausible slip: the slot is filled only when it is empty.
install_if_empty(cur, o) == IF cur = None THEN o ELSE cur

\* `*current.borrow_mut() = Some(observer.clone())`
install(cur, o) == o

\* ------------------------------------------------------------------- Init
Init ==
    /\ value = [c \in Cells |-> InitialValue]
    /\ subscribers = [c \in Cells |-> {}]
    /\ next_id = [c \in Cells |-> 0]
    /\ local_subscribers = [c \in Cells |-> <<>>]
    /\ CURRENT_OBSERVER = None
    /\ handles = [o \in Observers |-> 0]
    /\ created = 0
    /\ borrowed = {}
    /\ ret = 0
    /\ retb = FALSE
    /\ calls = <<>>
    /\ lastOp = [op |-> "init", cell |-> 0, arg |-> 0]
    /\ steps = 0
    /\ writes = [c \in Cells |-> <<>>]
    /\ delivered = [c \in Cells |-> [i \in Ids |-> <<>>]]
    /\ subscribedAt = [c \in Cells |-> [i \in Ids |-> 0]]
    /\ unsubscribed = [c \in Cells |-> {}]
    /\ trackLog = [c \in Cells |-> <<>>]
    /\ dropped = {}
    /\ stores = [S \in Types |-> 0]
    /\ nGroups = 0
    /\ sValue = [g \in Groups |-> InitialValue]
    /\ sSubs = [g \in Groups |-> 0]
    /\ sNotified = 0
    /\ spc = [t \in Threads |-> 0]
    /\ got = <<>>
    /\ epoch = [S \in Types |-> 0]
    /\ sOp = [op |-> "init", t |-> 0, type |-> 0, g |-> 0, b |-> FALSE,
              n |-> 0, h |-> 0]
    /\ nStoreOps = 0
    /\ subBody = [c \in Cells |-> [i \in Ids |-> NoBody]]
    /\ obsBody = [o \in Observers |-> NoBody]
    /\ locked = {}
    /\ localBorrowed = {}
    /\ poisoned = [c \in Cells |-> {}]
    /\ stack = <<>>
    /\ outcome = "idle"
    /\ fail = [op |-> "none", cell |-> 0, from |-> "none"]
    /\ nested = {}
    /\ skipped = {}
    /\ pc = [t \in Threads |-> [cell |-> 0, id |-> 0, body |-> NoBody]]
    /\ issued = <<>>
    /\ returned = {}
    /\ removedAfter = {}
    /\ pLast = [op |-> "init", cell |-> 0, res |-> "ok", had |-> FALSE]
    /\ nCalls = 0
    /\ contexts = [n \in Names |-> IF n = "default" THEN 1 ELSE 0]
    /\ current = "default"
    /\ nContexts = 1
    /\ cmLast = [op |-> "new", name |-> "default", res |-> "ok"]
    /\ lpc = [t \in Threads |-> [op |-> "none", cell |-> 0, pc |-> "idle",
                                 arg |-> 0, snap |-> 0, mark |-> 0]]
    /\ held = [t \in Threads |-> {}]
    /\ hist = [c \in Cells |-> <<InitialValue>>]
    /\ deliveries = [c \in Cells |-> [i \in Ids |-> <<>>]]
    /\ nWrites = [c \in Cells |-> 0]
    /\ subAt = [c \in Cells |-> [i \in Ids |-> 0]]
    /\ unsubIds = [c \in Cells |-> {}]
    /\ nLockCalls = 0

\* One more API call; its outputs replace those of the previous call.
Call(op, c, a) ==
    /\ steps < MaxSteps
    /\ steps' = steps + 1
    /\ lastOp' = [op |-> op, cell |-> c, arg |-> a]
    /\ UNCHANGED <<storeVars, machVars, cmVars, lockVars>>

\* ---------------------------------------------------------------- reads
\* The call of track_access() that opens get/map/when.
Tracked(c) ==
    /\ local_subscribers' =
          [local_subscribers EXCEPT ![c] = track_access(@, CURRENT_OBSERVER)]
    /\ trackLog' =
          [trackLog EXCEPT ![c] =
              IF CURRENT_OBSERVER = None THEN @ ELSE Append(@, CURRENT_OBSERVER)]
    /\ calls' = <<>>
    /\ UNCHANGED <<value, subscribers, next_id, obsVars, writes, delivered,
                   subscribedAt, unsubscribed, dropped>>

Get(c) ==
    /\ Call("get", c, 0)
    /\ Tracked(c)
    /\ ret' = value[c]
    /\ retb' = FALSE

Map(c, k) ==
    /\ Call("map", c, k)
    /\ Tracked(c)
    /\ ret' = value[c] * k
    /\ retb' = FALSE

When(c, k) ==
    /\ Call("when", c, k)
    /\ Tracked(c)
    /\ ret' = 0
    /\ retb' = (value[c] >= k)

\* ---------------------------------------------------------------- writes
\* notify_subscribers() for the stored value v, the map enumerated in `order`.
notify_subscribers(c, v, order) ==
    /\ calls' = notify_calls(v, order, local_subscribers[c])
    /\ local_subscribers' = [local_subscribers EXCEPT ![c] = retain(@)]
    /\ delivered' = [delivered EXCEPT ![c] =
                        [i \in Ids |->
                            @[i] \o [k \in 1..Cardinality(
                                        {j \in 1..Len(calls') :
                                            /\ calls'[j].kind = "explicit"
                                            /\ calls'[j].who = i}) |-> v]]]

\* A plausible slip: set() returns early when the value does not change.
Set_skip_equal(c, v) ==
    /\ Call("set", c, v)
    /\ value' = [value EXCEPT ![c] = set_store(@, v)]
    /\ IF v = value[c]
       THEN /\ calls' = <<>>
            /\ UNCHANGED <<local_subscribers, delivered>>
       ELSE \E order \in Orders(subscribers[c]) :
               notify_subscribers(c, value'[c], order)
    /\ writes' = [writes EXCEPT ![c] = Append(@, [op |-> "set", arg |-> v])]
    /\ ret' = 0
    /\ retb' = FALSE
    /\ UNCHANGED <<subscribers, next_id, obsVars, subscribedAt, unsubscribed,
                   trackLog, dropped>>

Set(c, v) ==
    /\ Call("set", c, v)
    /\ value' = [value EXCEPT ![c] = set_store(@, v)]
    /\ \E order \in Orders(subscribers[c]) :
          notify_subscribers(c, value'[c], order)
    /\ writes' = [writes EXCEPT ![c] = Append(@, [op |-> "set", arg |-> v])]
    /\ ret' = 0
    /\ retb' = FALSE
    /\ UNCHANGED <<subscribers, next_id, obsVars, subscribedAt, unsubscribed,
                   trackLog, dropped>>

Update(c, k) ==
    /\ Call("update", c, k)
    /\ value' = [value EXCEPT ![c] = update_apply(@, k)]
    /\ \E order \in Orders(subscribers[c]) :
          notify_subscribers(c, value'[c], order)
    /\ writes' = [writes EXCEPT ![c] = Append(@, [op |-> "update", arg |-> k])]
    /\ ret' = 0
    /\ retb' = FALSE
    /\ UNCHANGED <<subscribers, next_id, obsVars, subscribedAt, unsubscribed,
                   trackLog, dropped>>

\* ------------------------------------------------------- subscribe/unsubscribe
Subscribe(c) ==
    /\ next_id[c] < MaxSubs
    /\ Call("subscribe", c, next_id[c])
    /\ next_id' = [next_id EXCEPT ![c] = @ + 1]
    /\ subscribers' = [subscribers EXCEPT ![c] = @ \cup {next_id[c]}]
    /\ ret' = next_id[c]
    /\ retb' = FALSE
    /\ calls' = <<>>
    /\ subscribedAt' = [subscribedAt EXCEPT ![c][next_id[c]] = Len(writes[c])]
    /\ UNCHANGED <<value, local_subscribers, obsVars, writes, delivered,
                   unsubscribed, trackLog, dropped>>

Unsubscribe(c, id) ==
    /\ Call("unsubscribe", c, id)
    /\ subscribers' = [subscribers EXCEPT ![c] = remove(@, id)]
    /\ unsubscribed' = [unsubscribed EXCEPT ![c] =
                           IF id < next_id[c] THEN @ \cup {id} ELSE @]
    /\ ret' = 0
    /\ retb' = FALSE
    /\ calls' = <<>>
    /\ UNCHANGED <<value, next_id, local_subscribers, obsVars, writes,
                   delivered, subscribedAt, trackLog, dropped>>

\* ---------------------------------------------------------- ObserverContext
\* ObserverContext::new(update_fn)
ObserverContextNew ==
    /\ created < MaxObservers
    /\ Call("observer_new", 0, created + 1)
    /\ created' = created + 1
    /\ handles' = [handles EXCEPT ![created + 1] = 1]
    /\ CURRENT_OBSERVER' = install(CURRENT_OBSERVER, created + 1)
    /\ ret' = 0
    /\ retb' = FALSE
    /\ calls' = <<>>
    /\ UNCHANGED <<cellVars, borrowed, histVars>>

\* ObserverContext::clone(): one more value sharing the Rc of o.
ObserverContextClone(o) ==
    /\ handles[o] > 0
    /\ handles[o] < MaxHandles
    /\ Call("observer_clone", 0, o)
    /\ handles' = [handles EXCEPT ![o] = @ + 1]
    /\ ret' = 0
    /\ retb' = FALSE
    /\ calls' = <<>>
    /\ UNCHANGED <<cellVars, CURRENT_OBSERVER, created, borrowed, histVars>>

\* Drop of one ObserverContext value of o: drop() empties the slot, then the
\* value's own Rc is released.
ObserverContextDrop(o) ==
    /\ handles[o] > 0
    /\ Call("observer_drop", 0, o)
    /\ CURRENT_OBSERVER' = None
    /\ handles' = [handles EXCEPT ![o] = @ - 1]
    /\ dropped' = dropped \cup {o}
    /\ ret' = 0
    /\ retb' = FALSE
    /\ calls' = <<>>
    /\ UNCHANGED <<cellVars, created, borrowed, writes, delivered,
                   subscribedAt, unsubscribed, trackLog>>

\* ------------------------------------------------------------------- Next
Next ==
    \/ \E c \in Cells : Get(c)
    \/ \E c \in Cells, k \in MapArgs : Map(c, k)
    \/ \E c \in Cells, k \in WhenArgs : When(c, k)
    \/ \E c \in Cells, v \in SetArgs : Set(c, v)
    \/ \E c \in Cells, k \in UpdateArgs : Update(c, k)
    \/ \E c \in Cells : Subscribe(c)
    \/ \E c \in Cells, id \in Ids : Unsubscribe(c, id)
    \/ ObserverContextNew
    \/ \E o \in Observers : ObserverContextClone(o)
    \/ \E o \in Observers : ObserverContextDrop(o)

Spec == Init /\ [][Next]_vars

\* ====================================================== StoreRegistry
\* The registry map (StoreRegistry.stores, and the identical StoreContext
\* .stores) keyed by TypeId.  A bundle type S is a struct of ObservableValue
\* cells; a value of S is a handle on one group of cells.  Each thread runs
\* one call at a time; every call takes the map's mutex for one access, and
\* get_or_create makes two accesses (get, then register).

\* A plausible slip: Clone of a bundle copies its cells instead of sharing
\* their Arcs.
store_clone_deep(g, fresh) == fresh

\* #[derive(Clone)] on a bundle of ObservableValue fields: the clone shares
\* the Arc of every cell, so it is a handle on the same group.
store_clone(g, fresh) == g

\* HashMap::contains_key
registry_has(m, S) == m[S] # 0

\* HashMap::len
registry_count(m) == Cardinality({S \in Types : m[S] # 0})

\* HashMap::insert(type_id, Arc::new(store))
registry_insert(m, S, g) == [m EXCEPT ![S] = g]

\* A plausible slip: remove() empties the whole map.
registry_remove_all(m, S) == [T \in Types |-> 0]

\* HashMap::remove(&TypeId::of::<S>())
registry_remove(m, S) == [m EXCEPT ![S] = 0]

\* HashMap::clear
registry_clear(m) == [S \in Types |-> 0]

\* One more registry or handle call by thread t, with its results.
StoreCall(op, t, S, g, b, n, h) ==
    /\ spc[t] = 0
    /\ nStoreOps < MaxStoreOps
    /\ nStoreOps' = nStoreOps + 1
    /\ sOp' = [op |-> op, t |-> t, type |-> S, g |-> g, b |-> b, n |-> n,
               h |-> h]
    /\ UNCHANGED <<cellModelVars, machVars, cmVars, lockVars>>

\* The caller receives handle h (0: none), cloned from group src.
GiveHandle(t, S, h, via, src) ==
    /\ got' = IF h = 0 THEN got
              ELSE Append(got, [t |-> t, type |-> S, g |-> h,
                                epoch |-> epoch[S], via |-> via, subs |-> 0])
    /\ nGroups' = IF h > nGroups THEN h ELSE nGroups
    /\ sValue' = IF h > nGroups THEN [sValue EXCEPT ![h] = sValue[src]]
                 ELSE sValue

\* `.get(&TypeId::of::<S>()).and_then(downcast_ref).cloned()`
registry_get(m, S) == IF m[S] = 0 THEN 0 ELSE store_clone(m[S], nGroups + 1)

\* A plausible slip: get() default-constructs and registers a missing entry.
RegistryGet_creates(t, S) ==
    /\ StoreCall("get", t, S, IF stores[S] = 0 THEN nGroups + 1 ELSE stores[S],
                 FALSE, 0, 0)
    /\ stores' = IF stores[S] = 0 THEN registry_insert(stores, S, nGroups + 1)
                 ELSE stores
    /\ GiveHandle(t, S, IF stores[S] = 0 THEN nGroups + 1 ELSE stores[S],
                  "get", nGroups + 1)
    /\ UNCHANGED <<sSubs, sNotified, spc, epoch>>

\* StoreRegistry::get::<S>()
RegistryGet(t, S) ==
    /\ StoreCall("get", t, S, registry_get(stores, S), FALSE, 0, 0)
    /\ GiveHandle(t, S, registry_get(stores, S), "get", stores[S])
    /\ UNCHANGED <<stores, sSubs, sNotified, spc, epoch>>

\* StoreRegistry::get_or_create::<S>(), first access: `self.get::<S>()`.
\* With an entry the call returns its clone; without, the call goes on.
GetOrCreateGet(t, S) ==
    /\ StoreCall(IF registry_get(stores, S) = 0 THEN "get_or_create_miss"
                 ELSE "get_or_create",
                 t, S, registry_get(stores, S), FALSE, 0, 0)
    /\ GiveHandle(t, S, registry_get(stores, S), "get_or_create", stores[S])
    /\ spc' = [spc EXCEPT ![t] = IF registry_get(stores, S) = 0 THEN S ELSE 0]
    /\ UNCHANGED <<stores, sSubs, sNotified, epoch>>

\* get_or_create, second access: `let store = S::default();
\* self.register(store.clone()); store`.
GetOrCreateRegister(t) ==
    /\ spc[t] # 0
    /\ LET S == spc[t]
           g == nGroups + 1
           h == store_clone(g, nGroups + 2)
       IN /\ stores' = registry_insert(stores, S, h)
          /\ nGroups' = IF h > g THEN h ELSE g
          /\ got' = Append(got, [t |-> t, type |-> S, g |-> g,
                                 epoch |-> epoch[S], via |-> "get_or_create",
                                 subs |-> 0])
          /\ sOp' = [op |-> "get_or_create", t |-> t, type |-> S, g |-> g,
                     b |-> TRUE, n |-> 0, h |-> 0]
    /\ spc' = [spc EXCEPT ![t] = 0]
    /\ UNCHANGED <<sValue, sSubs, sNotified, epoch, nStoreOps, cellModelVars,
                   machVars, cmVars, lockVars>>

\* StoreRegistry::register(S::new())
RegistryRegister(t, S) ==
    /\ StoreCall("register", t, S, nGroups + 1, FALSE, 0, 0)
    /\ stores' = registry_insert(stores, S, nGroups + 1)
    /\ nGroups' = nGroups + 1
    /\ epoch' = [epoch EXCEPT ![S] = @ + 1]
    /\ UNCHANGED <<sValue, sSubs, sNotified, spc, got>>

\* StoreRegistry::has::<S>()
RegistryHas(t, S) ==
    /\ StoreCall("has", t, S, 0, registry_has(stores, S), 0, 0)
    /\ UNCHANGED <<stores, nGroups, sValue, sSubs, sNotified, spc, got, epoch>>

\* StoreRegistry::remove::<S>()
RegistryRemove(t, S) ==
    /\ StoreCall("remove", t, S, 0, FALSE, 0, 0)
    /\ stores' = registry_remove(stores, S)
    /\ epoch' = [epoch EXCEPT ![S] = @ + 1]
    /\ UNCHANGED <<nGroups, sValue, sSubs, sNotified, spc, got>>

\* StoreRegistry::clear()
RegistryClear(t) ==
    /\ StoreCall("clear", t, 0, 0, FALSE, 0, 0)
    /\ stores' = registry_clear(stores)
    /\ epoch' = [S \in Types |-> epoch[S] + 1]
    /\ UNCHANGED <<nGroups, sValue, sSubs, sNotified, spc, got>>

\* StoreRegistry::count()
RegistryCount(t) ==
    /\ StoreCall("count", t, 0, 0, FALSE, registry_count(stores), 0)
    /\ UNCHANGED <<stores, nGroups, sValue, sSubs, sNotified, spc, got, epoch>>

\* set(v) on the cell of the i-th handle: the store and the notification of
\* the cell's explicit subscribers.
HandleSet(t, i, v) ==
    /\ got[i].t = t
    /\ StoreCall("cell_set", t, got[i].type, got[i].g, FALSE, v, i)
    /\ sValue' = [sValue EXCEPT ![got[i].g] = set_store(@, v)]
    /\ sNotified' = sSubs[got[i].g]
    /\ UNCHANGED <<stores, nGroups, sSubs, spc, got, epoch>>

\* get() on the cell of the i-th handle.
HandleGet(t, i) ==
    /\ got[i].t = t
    /\ StoreCall("cell_get", t, got[i].type, got[i].g, FALSE,
                 sValue[got[i].g], i)
    /\ UNCHANGED <<stores, nGroups, sValue, sSubs, sNotified, spc, got, epoch>>

\* subscribe(callback) on the cell of the i-th handle.
HandleSubscribe(t, i) ==
    /\ got[i].t = t
    /\ StoreCall("cell_subscribe", t, got[i].type, got[i].g, FALSE, 0, i)
    /\ sSubs' = [sSubs EXCEPT ![got[i].g] = @ + 1]
    /\ got' = [got EXCEPT ![i].subs = @ + 1]
    /\ UNCHANGED <<stores, nGroups, sValue, sNotified, spc, epoch>>

StoreStep(t) ==
    \/ \E S \in Types : RegistryGet(t, S)
    \/ \E S \in Types : GetOrCreateGet(t, S)
    \/ GetOrCreateRegister(t)
    \/ \E S \in Types : RegistryRegister(t, S)
    \/ \E S \in Types : RegistryHas(t, S)
    \/ \E S \in Types : RegistryRemove(t, S)
    \/ RegistryClear(t)
    \/ RegistryCount(t)
    \/ \E i \in 1..Len(got), v \in SetArgs : HandleSet(t, i, v)
    \/ \E i \in 1..Len(got) : HandleGet(t, i)
    \/ \E i \in 1..Len(got) : HandleSubscribe(t, i)

\* One thread: every call runs to completion before the next starts.
NextStore == StoreStep(1)

SpecStore == Init /\ [][NextStore]_vars

\* Several threads share the registry (clones of one StoreRegistry).
NextStoreConc == \E t \in Threads : StoreStep(t)

SpecStoreConc == Init /\ [][NextStoreConc]_vars

\* ==================================================== concurrent subscribe
\* Threads hold clones of one cell (the clones share the three Arc fields).
\* subscribe takes the next_id mutex, releases it, then takes the subscribers
\* mutex: another thread can run between the two critical sections.
logVars == <<ret, retb, calls, lastOp, steps, histVars>>
\* What the actions on cells with threads and callbacks leave alone.
otherVars == <<storeVars, cmVars, lockVars>>

\* A plausible slip: the counter is read but the increment is lost.
increment_lost(n) == n

\* `*next_id += 1`
increment(n) == n + 1

\* One more top-level call.
TopCall ==
    /\ nCalls < MaxCalls
    /\ nCalls' = nCalls + 1

\* subscribe, first critical section: `let id = *next_id; *next_id += 1;`
SubscribeTakeId(t, c, b) ==
    /\ pc[t].cell = 0
    /\ next_id[c] < MaxSubs
    /\ TopCall
    /\ pc' = [pc EXCEPT ![t] = [cell |-> c, id |-> next_id[c], body |-> b]]
    /\ next_id' = [next_id EXCEPT ![c] = increment(@)]
    /\ issued' = Append(issued, [t |-> t, cell |-> c, id |-> next_id[c],
                                 body |-> b])
    /\ UNCHANGED <<value, subscribers, local_subscribers, obsVars, logVars,
                   otherVars, subBody, obsBody, reentVars, returned,
                   removedAfter, poisonVars>>

\* subscribe, second critical section: `subscribers.insert(id, callback)`,
\* then the id is returned.
SubscribeInsert(t) ==
    /\ pc[t].cell # 0
    /\ LET c == pc[t].cell
           id == pc[t].id
       IN /\ subscribers' = [subscribers EXCEPT ![c] = @ \cup {id}]
          /\ subBody' = [subBody EXCEPT ![c][id] = pc[t].body]
          /\ returned' = returned \cup {<<c, id>>}
    /\ pc' = [pc EXCEPT ![t] = [cell |-> 0, id |-> 0, body |-> NoBody]]
    /\ UNCHANGED <<value, next_id, local_subscribers, obsVars, logVars,
                   otherVars, obsBody, reentVars, issued, removedAfter,
                   poisonVars, nCalls>>

\* unsubscribe(id) by a thread, for any id.
UnsubscribeAny(t, c, id) ==
    /\ pc[t].cell = 0
    /\ TopCall
    /\ subscribers' = [subscribers EXCEPT ![c] = remove(@, id)]
    /\ removedAfter' = IF <<c, id>> \in returned
                       THEN removedAfter \cup {<<c, id>>}
                       ELSE removedAfter
    /\ UNCHANGED <<value, next_id, local_subscribers, obsVars, logVars,
                   otherVars, subBody, obsBody, reentVars, pc, issued,
                   returned, poisonVars>>

ConcBodies == {NoBody, [op |-> "get", cell |-> 1, arg |-> 0]}

NextConc ==
    \/ \E t \in Threads, c \in Cells, b \in ConcBodies : SubscribeTakeId(t, c, b)
    \/ \E t \in Threads : SubscribeInsert(t)
    \/ \E t \in Threads, c \in Cells, id \in Ids : UnsubscribeAny(t, c, id)

SpecConc == Init /\ [][NextConc]_vars

\* ======================================================== poisoned mutexes
\* `lock().unwrap()` panics when the mutex is poisoned; a mutex becomes
\* poisoned when a panic unwinds through a section that holds its guard.
\* These are whole calls on one thread, the panic caught by the caller (or
\* the next call made from another thread through a clone).
lock_ok(c, lk) == lk \notin poisoned[c]

\* The call recorded in pLast; `had` tells whether a mutex of the cell was
\* poisoned when the call started.
Outcome(op, c, res) ==
    pLast' = [op |-> op, cell |-> c, res |-> res, had |-> poisoned[c] # {}]

\* notify_subscribers after a write: the value mutex for the snapshot, then
\* the subscribers mutex, held while the callbacks run.
notify_result(c, cbPanics) ==
    IF ~lock_ok(c, "value") \/ ~lock_ok(c, "subscribers") THEN "panic"
    ELSE IF cbPanics /\ subscribers[c] # {} THEN "panic"
    ELSE "ok"

\* The mutexes poisoned once the notification is over.
notify_poison(c, cbPanics) ==
    IF lock_ok(c, "value") /\ lock_ok(c, "subscribers")
       /\ cbPanics /\ subscribers[c] # {}
    THEN poisoned[c] \cup {"subscribers"}
    ELSE poisoned[c]

\* get(), map(f), when(p): track_access (the slot is empty), then the value
\* mutex.
PoisonRead(op, c) ==
    /\ TopCall
    /\ Outcome(op, c, IF lock_ok(c, "value") THEN "ok" ELSE "panic")
    /\ UNCHANGED <<cellVars, obsVars, logVars, otherVars, subBody, obsBody,
                   reentVars, concVars, poisoned>>

\* set(v), some explicit callback panicking or none.
PoisonSet(c, v, cbPanics) ==
    /\ TopCall
    /\ IF ~lock_ok(c, "value")
       THEN /\ Outcome("set", c, "panic")
            /\ UNCHANGED <<value, poisoned>>
       ELSE /\ value' = [value EXCEPT ![c] = set_store(@, v)]
            /\ Outcome("set", c, notify_result(c, cbPanics))
            /\ poisoned' = [poisoned EXCEPT ![c] = notify_poison(c, cbPanics)]
    /\ UNCHANGED <<subscribers, next_id, local_subscribers, obsVars, logVars,
                   otherVars, subBody, obsBody, reentVars, concVars>>

\* update(f): f runs under the value guard; a panic of f poisons it.
PoisonUpdate(c, k, mutatorPanics) ==
    /\ TopCall
    /\ IF ~lock_ok(c, "value")
       THEN /\ Outcome("update", c, "panic")
            /\ UNCHANGED <<value, poisoned>>
       ELSE IF mutatorPanics
       THEN /\ Outcome("update", c, "panic")
            /\ poisoned' = [poisoned EXCEPT ![c] = @ \cup {"value"}]
            /\ UNCHANGED value
       ELSE /\ value' = [value EXCEPT ![c] = update_apply(@, k)]
            /\ Outcome("update", c, notify_result(c, FALSE))
            /\ UNCHANGED poisoned
    /\ UNCHANGED <<subscribers, next_id, local_subscribers, obsVars, logVars,
                   otherVars, subBody, obsBody, reentVars, concVars>>

\* subscribe(cb): the next_id mutex, then the subscribers mutex.
PoisonSubscribe(c) ==
    /\ next_id[c] < MaxSubs
    /\ TopCall
    /\ IF ~lock_ok(c, "next_id")
       THEN /\ Outcome("subscribe", c, "panic")
            /\ UNCHANGED <<next_id, subscribers>>
       ELSE /\ next_id' = [next_id EXCEPT ![c] = increment(@)]
            /\ IF ~lock_ok(c, "subscribers")
               THEN /\ Outcome("subscribe", c, "panic")
                    /\ UNCHANGED subscribers
               ELSE /\ Outcome("subscribe", c, "ok")
                    /\ subscribers' =
                          [subscribers EXCEPT ![c] = @ \cup {next_id[c]}]
    /\ UNCHANGED <<value, local_subscribers, obsVars, logVars, otherVars,
                   subBody, obsBody, reentVars, concVars, poisoned>>

\* unsubscribe(id): the subscribers mutex.
PoisonUnsubscribe(c, id) ==
    /\ TopCall
    /\ IF ~lock_ok(c, "subscribers")
       THEN /\ Outcome("unsubscribe", c, "panic")
            /\ UNCHANGED subscribers
       ELSE /\ Outcome("unsubscribe", c, "ok")
            /\ subscribers' = [subscribers EXCEPT ![c] = remove(@, id)]
    /\ UNCHANGED <<value, next_id, local_subscribers, obsVars, logVars,
                   otherVars, subBody, obsBody, reentVars, concVars, poisoned>>

NextPoison ==
    \/ \E op \in {"get", "map", "when"}, c \in Cells : PoisonRead(op, c)
    \/ \E c \in Cells, v \in SetArgs, p \in BOOLEAN : PoisonSet(c, v, p)
    \/ \E c \in Cells, k \in UpdateArgs, p \in BOOLEAN : PoisonUpdate(c, k, p)
    \/ \E c \in Cells : PoisonSubscribe(c)
    \/ \E c \in Cells, id \in Ids : PoisonUnsubscribe(c, id)

SpecPoison == Init /\ [][NextPoison]_vars

\* ================================================ callbacks that call back
\* One thread.  A write is followed step by step: notify_subscribers takes
\* the `subscribers` mutex and keeps the guard to the end of the function,
\* runs the explicit callbacks, borrows `local_subscribers` mutably and keeps
\* that borrow through the sweep, and runs the observer callbacks under a
\* mutable borrow of each.  A callback body may call get() or set(v) of a
\* cell; the call runs on the same thread, inside the notification.
top == stack[Len(stack)]
SetTop(f) == [stack EXCEPT ![Len(stack)] = f]
Running == stack # <<>> /\ outcome = "running"
Idle == stack = <<>> /\ outcome \in {"idle", "ok"}

\* The call op on cell c, made from `from`, does not return: it panics, or
\* blocks for ever.
Fail(op, c, from, how) ==
    /\ outcome' = how
    /\ fail' = [op |-> op, cell |-> c, from |-> from]

\* `self.local_subscribers.borrow_mut()` in track_access panics: it runs only
\* when the slot holds an observer, and the RefCell is already borrowed while
\* the cell's sweep is in progress.
borrow_mut_panics(cur, c) == cur # None /\ c \in localBorrowed

\* Locking the `subscribers` mutex of c on the thread that holds it: std's
\* Mutex either panics or blocks.
Relock == {"deadlock", "panic"}

\* The frame of a notification of cell c that has just taken the mutex.
Frame(c) == [cell |-> c, todo |-> subscribers[c], phase |-> "explicit",
             idx |-> 0]

\* One call made by `from` (a callback, or the program at top level): does
\* nothing, get() or set(v).  st is the stack the call returns to.
Run(body, from, st, okOutcome) ==
    IF body.op = "get"
    THEN IF borrow_mut_panics(CURRENT_OBSERVER, body.cell)
         THEN /\ Fail("get", body.cell, from, "panic")
              /\ stack' = st
              /\ UNCHANGED <<value, locked, local_subscribers, nested>>
         ELSE /\ local_subscribers' =
                    [local_subscribers EXCEPT
                        ![body.cell] = track_access(@, CURRENT_OBSERVER)]
              /\ stack' = st
              /\ outcome' = okOutcome
              /\ UNCHANGED <<value, locked, fail, nested>>
    ELSE IF body.op = "set"
    THEN /\ value' = [value EXCEPT ![body.cell] = set_store(@, body.arg)]
         /\ nested' = IF from = "top" THEN nested
                      ELSE nested \cup {[cell |-> body.cell, from |-> from]}
         /\ IF body.cell \in locked
            THEN /\ \E how \in Relock : Fail("set", body.cell, from, how)
                 /\ stack' = st
                 /\ UNCHANGED <<locked, local_subscribers>>
            ELSE /\ locked' = locked \cup {body.cell}
                 /\ stack' = Append(st, Frame(body.cell))
                 /\ outcome' = "running"
                 /\ UNCHANGED <<fail, local_subscribers>>
    ELSE /\ stack' = st
         /\ outcome' = okOutcome
         /\ UNCHANGED <<value, locked, local_subscribers, fail, nested>>

\* `for callback in subscribers.values() { callback(&value) }`: the next
\* explicit callback, in the map's order.
NotifyExplicit ==
    /\ Running
    /\ top.phase = "explicit"
    /\ \E id \in top.todo :
          Run(subBody[top.cell][id], "explicit",
              SetTop([top EXCEPT !.todo = @ \ {id}]), "running")
    /\ UNCHANGED <<subscribers, next_id, obsVars, logVars, otherVars, subBody,
                   obsBody, localBorrowed, skipped, concVars, poisonVars,
                   nCalls>>

\* `let mut local_subs = self.local_subscribers.borrow_mut();`
NotifyBeginSweep ==
    /\ Running
    /\ top.phase = "explicit"
    /\ top.todo = {}
    /\ IF top.cell \in localBorrowed
       THEN /\ Fail("set", top.cell, "sweep", "panic")
            /\ UNCHANGED <<stack, localBorrowed>>
       ELSE /\ localBorrowed' = localBorrowed \cup {top.cell}
            /\ stack' = SetTop([top EXCEPT !.phase = "sweep", !.idx = 1])
            /\ UNCHANGED <<outcome, fail>>
    /\ UNCHANGED <<cellVars, obsVars, logVars, otherVars, subBody, obsBody,
                   locked, nested, skipped, concVars, poisonVars, nCalls>>

Sweeping ==
    /\ Running
    /\ top.phase = "sweep"
    /\ top.idx <= Len(local_subscribers[top.cell])

link == local_subscribers[top.cell][top.idx]

\* retain(): the link does not upgrade; it is removed when the sweep ends.
SweepDead ==
    /\ Sweeping
    /\ ~upgrade(link)
    /\ stack' = SetTop([top EXCEPT !.idx = @ + 1])
    /\ UNCHANGED <<cellVars, obsVars, logVars, otherVars, subBody, obsBody,
                   locked, localBorrowed, outcome, fail, nested, skipped,
                   concVars, poisonVars, nCalls>>

\* retain(): try_borrow_mut() fails, the callback is passed over.
SweepSkip ==
    /\ Sweeping
    /\ upgrade(link)
    /\ ~try_borrow_mut(link)
    /\ skipped' = skipped \cup {[cell |-> top.cell, obs |-> link]}
    /\ stack' = SetTop([top EXCEPT !.idx = @ + 1])
    /\ UNCHANGED <<cellVars, obsVars, logVars, otherVars, subBody, obsBody,
                   locked, localBorrowed, outcome, fail, nested, concVars,
                   poisonVars, nCalls>>

\* retain(): `cb()` under the mutable borrow of the callback.
SweepInvoke ==
    /\ Sweeping
    /\ upgrade(link)
    /\ try_borrow_mut(link)
    /\ borrowed' = borrowed \cup {link}
    /\ Run(obsBody[link], "implicit", SetTop([top EXCEPT !.phase = "callback"]),
           "running")
    /\ UNCHANGED <<subscribers, next_id, CURRENT_OBSERVER, handles, created,
                   logVars, otherVars, subBody, obsBody, localBorrowed,
                   skipped, concVars, poisonVars, nCalls>>

\* The observer callback returns: its borrow ends, the sweep moves on.
SweepReturn ==
    /\ Running
    /\ top.phase = "callback"
    /\ borrowed' = borrowed \ {link}
    /\ stack' = SetTop([top EXCEPT !.phase = "sweep", !.idx = @ + 1])
    /\ UNCHANGED <<cellVars, CURRENT_OBSERVER, handles, created, logVars,
                   otherVars, subBody, obsBody, locked, localBorrowed, outcome,
                   fail, nested, skipped, concVars, poisonVars, nCalls>>

\* End of notify_subscribers: retain() has dropped the dead links, the borrow
\* and the guard are released, the write returns to its caller.
NotifyEnd ==
    /\ Running
    /\ top.phase = "sweep"
    /\ top.idx > Len(local_subscribers[top.cell])
    /\ local_subscribers' = [local_subscribers EXCEPT ![top.cell] = retain(@)]
    /\ localBorrowed' = localBorrowed \ {top.cell}
    /\ locked' = locked \ {top.cell}
    /\ stack' = SubSeq(stack, 1, Len(stack) - 1)
    /\ outcome' = IF Len(stack) = 1 THEN "ok" ELSE "running"
    /\ UNCHANGED <<value, subscribers, next_id, obsVars, logVars, otherVars,
                   subBody, obsBody, fail, nested, skipped, concVars,
                   poisonVars, nCalls>>

\* subscribe(cb) at top level, cb doing b.
ReentSubscribe(c, b) ==
    /\ Idle
    /\ next_id[c] < MaxSubs
    /\ TopCall
    /\ next_id' = [next_id EXCEPT ![c] = increment(@)]
    /\ subscribers' = [subscribers EXCEPT ![c] = @ \cup {next_id[c]}]
    /\ subBody' = [subBody EXCEPT ![c][next_id[c]] = b]
    /\ UNCHANGED <<value, local_subscribers, obsVars, logVars, otherVars,
                   obsBody, reentVars, concVars, poisonVars>>

\* ObserverContext::new(f) at top level, f doing b.
ReentObserverNew(b) ==
    /\ Idle
    /\ created < MaxObservers
    /\ TopCall
    /\ created' = created + 1
    /\ handles' = [handles EXCEPT ![created + 1] = 1]
    /\ CURRENT_OBSERVER' = install(CURRENT_OBSERVER, created + 1)
    /\ obsBody' = [obsBody EXCEPT ![created + 1] = b]
    /\ UNCHANGED <<cellVars, borrowed, logVars, otherVars, subBody, reentVars,
                   concVars, poisonVars>>

\* Drop of the ObserverContext of o at top level.
ReentObserverDrop(o) ==
    /\ Idle
    /\ handles[o] > 0
    /\ TopCall
    /\ CURRENT_OBSERVER' = None
    /\ handles' = [handles EXCEPT ![o] = @ - 1]
    /\ UNCHANGED <<cellVars, created, borrowed, logVars, otherVars, subBody,
                   obsBody, reentVars, concVars, poisonVars>>

\* get() at top level.
ReentGet(c) ==
    /\ Idle
    /\ TopCall
    /\ Run([op |-> "get", cell |-> c, arg |-> 0], "top", <<>>, outcome)
    /\ UNCHANGED <<subscribers, next_id, obsVars, logVars, otherVars, subBody,
                   obsBody, localBorrowed, skipped, concVars, poisonVars>>

\* set(v) at top level.
ReentSet(c, v) ==
    /\ Idle
    /\ TopCall
    /\ Run([op |-> "set", cell |-> c, arg |-> v], "top", <<>>, "running")
    /\ UNCHANGED <<subscribers, next_id, obsVars, logVars, otherVars, subBody,
                   obsBody, localBorrowed, skipped, concVars, poisonVars>>

NextReent ==
    \/ NotifyExplicit
    \/ NotifyBeginSweep
    \/ SweepDead
    \/ SweepSkip
    \/ SweepInvoke
    \/ SweepReturn
    \/ NotifyEnd
    \/ \E c \in Cells, b \in Bodies : ReentSubscribe(c, b)
    \/ \E b \in Bodies : ReentObserverNew(b)
    \/ \E o \in Observers : ReentObserverDrop(o)
    \/ \E c \in Cells : ReentGet(c)
    \/ \E c \in Cells, v \in SetArgs : ReentSet(c, v)

SpecReent == Init /\ [][NextReent]_vars

\* ========================================================= ContextManager
\* One ContextManager, as built by ContextManager::new(): the map holds a
\* context under "default" and `current` is "default".
CmCall(op, n, res) ==
    /\ cmLast' = [op |-> op, name |-> n, res |-> res]
    /\ UNCHANGED <<cellModelVars, storeVars, machVars, lockVars>>

\* `self.contexts.contains_key(&name)`
contains_key(m, n) == m[n] # 0

\* `if name != "default" { self.contexts.remove(name); }`
remove_context(m, n) == IF n # "default" THEN [m EXCEPT ![n] = 0] ELSE m

\* `self.contexts.retain(|k, _| k == "default")`
retain_default(m) == [n \in Names |-> IF n = "default" THEN m[n] ELSE 0]

\* create_context(name): a new context replaces any one under the name.
CmCreateContext(n) ==
    /\ nContexts < MaxContexts
    /\ nContexts' = nContexts + 1
    /\ contexts' = [contexts EXCEPT ![n] = nContexts + 1]
    /\ CmCall("create_context", n, "ok")
    /\ UNCHANGED current

\* get_context(name)
CmGetContext(n) ==
    /\ CmCall("get_context", n, IF contains_key(contexts, n) THEN "ok" ELSE "none")
    /\ UNCHANGED <<contexts, current, nContexts>>

\* set_current(name)
CmSetCurrent(n) ==
    /\ current' = IF contains_key(contexts, n) THEN n ELSE current
    /\ CmCall("set_current", n, "ok")
    /\ UNCHANGED <<contexts, nContexts>>

\* current(): `self.contexts.get(&self.current).unwrap()`
CmCurrent ==
    /\ CmCall("current", current,
              IF contains_key(contexts, current) THEN "ok" ELSE "panic")
    /\ UNCHANGED <<contexts, current, nContexts>>

\* remove_context(name)
CmRemoveContext(n) ==
    /\ contexts' = remove_context(contexts, n)
    /\ CmCall("remove_context", n, "ok")
    /\ UNCHANGED <<current, nContexts>>

\* clear()
CmClear ==
    /\ contexts' = retain_default(contexts)
    /\ current' = "default"
    /\ CmCall("clear", "default", "ok")
    /\ UNCHANGED nContexts

NextCm ==
    \/ \E n \in Names : CmCreateContext(n)
    \/ \E n \in Names : CmGetContext(n)
    \/ \E n \in Names : CmSetCurrent(n)
    \/ CmCurrent
    \/ \E n \in Names : CmRemoveContext(n)
    \/ CmClear

SpecCm == Init /\ [][NextCm]_vars

\* ================================================= threads sharing a cell
\* Two threads call get, set, update, subscribe and unsubscribe on clones of
\* one cell.  Each call is followed lock by lock: taking a guard and the
\* section that ends with its release are separate steps.  Callbacks only
\* log; no observer is installed on these threads, so track_access and the
\* sweep find nothing to do.
LockCells == {1}
lockRest == <<local_subscribers, obsVars, logVars, storeVars, cmVars, machVars>>

\* The arguments of each call.
LockOps ==
    {[op |-> "get", arg |-> 0], [op |-> "subscribe", arg |-> 0]}
        \cup {[op |-> "set", arg |-> v] : v \in SetArgs}
        \cup {[op |-> "update", arg |-> k] : k \in UpdateArgs}
        \cup {[op |-> "unsubscribe", arg |-> i] : i \in Ids}

\* The first lock() of each call.
first_pc(op) ==
    CASE op = "get" -> "get_lock"
      [] op = "set" -> "set_lock"
      [] op = "update" -> "update_lock"
      [] op = "subscribe" -> "sub_lock_id"
      [] op = "unsubscribe" -> "unsub_lock"

\* The mutex each lock() is called on.
lock_at(p) ==
    CASE p \in {"get_lock", "set_lock", "update_lock", "notify_lock_value"}
            -> "value"
      [] p \in {"notify_lock_subs", "sub_lock_subs", "unsub_lock"}
            -> "subscribers"
      [] p = "sub_lock_id" -> "next_id"

\* The section a granted lock() opens.
after_lock(p) ==
    CASE p = "get_lock" -> "get_read"
      [] p = "set_lock" -> "set_store"
      [] p = "update_lock" -> "update_mutate"
      [] p = "notify_lock_value" -> "notify_snapshot"
      [] p = "notify_lock_subs" -> "notify_callbacks"
      [] p = "sub_lock_id" -> "sub_take"
      [] p = "sub_lock_subs" -> "sub_insert"
      [] p = "unsub_lock" -> "unsub_remove"

LockPcs == {"get_lock", "set_lock", "update_lock", "notify_lock_value",
            "notify_lock_subs", "sub_lock_id", "sub_lock_subs", "unsub_lock"}

\* No thread holds the guard of mutex lk of cell c.
free(c, lk) == \A t \in Threads : <<c, lk>> \notin held[t]

\* A guard goes out of scope.
release(h, c, lk) == h \ {<<c, lk>>}

\* A plausible slip: update keeps the value guard while it notifies.
release_after_mutator_kept(h, c) == h

\* The end of the block around the mutator in update.
release_after_mutator(h, c) == release(h, c, "value")

\* A plausible slip: the callbacks get the value the cell was built with.
snapshot_stale(c) == InitialValue

\* `let value = self.value.lock().unwrap().clone();`
snapshot(c) == value[c]

At(t, p) == lpc[t].pc = p
Goto(t, p) == lpc' = [lpc EXCEPT ![t].pc = p]

\* A thread starts a call.
LockStart(t, c, o) ==
    /\ At(t, "idle")
    /\ nLockCalls < MaxLockCalls
    /\ o.op = "subscribe" => next_id[c] < MaxSubs
    /\ nLockCalls' = nLockCalls + 1
    /\ lpc' = [lpc EXCEPT ![t] = [op |-> o.op, cell |-> c,
                                  pc |-> first_pc(o.op), arg |-> o.arg,
                                  snap |-> 0, mark |-> 0]]
    /\ nWrites' = IF o.op \in {"set", "update"}
                  THEN [nWrites EXCEPT ![c] = @ + 1] ELSE nWrites
    /\ unsubIds' = IF o.op = "unsubscribe"
                   THEN [unsubIds EXCEPT ![c] = @ \cup {o.arg}] ELSE unsubIds
    /\ UNCHANGED <<value, subscribers, next_id, held, hist, deliveries,
                   subAt, lockRest>>

\* lock() returns once the mutex is free.
LockAcquire(t) ==
    /\ lpc[t].pc \in LockPcs
    /\ free(lpc[t].cell, lock_at(lpc[t].pc))
    /\ held' = [held EXCEPT ![t] = @ \cup {<<lpc[t].cell, lock_at(lpc[t].pc)>>}]
    /\ Goto(t, after_lock(lpc[t].pc))
    /\ UNCHANGED <<value, subscribers, next_id, hist, deliveries, nWrites,
                   subAt, unsubIds, nLockCalls, lockRest>>

\* get: `self.value.lock().unwrap().clone()`, the guard dropped on return.
LockGetRead(t) ==
    /\ At(t, "get_read")
    /\ lpc' = [lpc EXCEPT ![t] = [@ EXCEPT !.pc = "idle",
                                            !.snap = value[lpc[t].cell]]]
    /\ held' = [held EXCEPT ![t] = release(@, lpc[t].cell, "value")]
    /\ UNCHANGED <<value, subscribers, next_id, hist, deliveries, nWrites,
                   subAt, unsubIds, nLockCalls, lockRest>>

\* The value after a write is recorded as held by the cell.
Stored(t, v) ==
    /\ value' = [value EXCEPT ![lpc[t].cell] = v]
    /\ hist' = [hist EXCEPT ![lpc[t].cell] = Append(@, v)]
    /\ lpc' = [lpc EXCEPT ![t] = [@ EXCEPT !.pc = "notify_lock_value",
                                            !.mark = Len(hist[lpc[t].cell]) + 1]]

\* set: `*self.value.lock().unwrap() = value;`
LockSetStore(t) ==
    /\ At(t, "set_store")
    /\ Stored(t, set_store(value[lpc[t].cell], lpc[t].arg))
    /\ held' = [held EXCEPT ![t] = release(@, lpc[t].cell, "value")]
    /\ UNCHANGED <<subscribers, next_id, deliveries, nWrites, subAt, unsubIds,
                   nLockCalls, lockRest>>

\* update: `{ let mut value = ..; updater(&mut *value); }`
LockUpdateMutate(t) ==
    /\ At(t, "update_mutate")
    /\ Stored(t, update_apply(value[lpc[t].cell], lpc[t].arg))
    /\ held' = [held EXCEPT ![t] = release_after_mutator(@, lpc[t].cell)]
    /\ UNCHANGED <<subscribers, next_id, deliveries, nWrites, subAt, unsubIds,
                   nLockCalls, lockRest>>

\* notify_subscribers: the snapshot, the value guard dropped with the
\* statement.
LockSnapshot(t) ==
    /\ At(t, "notify_snapshot")
    /\ lpc' = [lpc EXCEPT ![t] = [@ EXCEPT !.pc = "notify_lock_subs",
                                            !.snap = snapshot(lpc[t].cell)]]
    /\ held' = [held EXCEPT ![t] = release(@, lpc[t].cell, "value")]
    /\ UNCHANGED <<value, subscribers, next_id, hist, deliveries, nWrites,
                   subAt, unsubIds, nLockCalls, lockRest>>

\* notify_subscribers: every callback of the map gets the snapshot, the sweep
\* finds no link, the subscribers guard is dropped on return.
LockCallbacks(t) ==
    /\ At(t, "notify_callbacks")
    /\ LET c == lpc[t].cell
       IN deliveries' =
             [deliveries EXCEPT ![c] =
                 [i \in Ids |->
                     IF i \in subscribers[c]
                     THEN Append(@[i], [val |-> lpc[t].snap,
                                        from |-> lpc[t].mark,
                                        upto |-> Len(hist[c])])
                     ELSE @[i]]]
    /\ held' = [held EXCEPT ![t] = release(@, lpc[t].cell, "subscribers")]
    /\ Goto(t, "idle")
    /\ UNCHANGED <<value, subscribers, next_id, hist, nWrites, subAt,
                   unsubIds, nLockCalls, lockRest>>

\* subscribe: `let id = *next_id; *next_id += 1; id`
LockSubTake(t) ==
    /\ At(t, "sub_take")
    /\ lpc' = [lpc EXCEPT ![t] = [@ EXCEPT !.pc = "sub_lock_subs",
                                            !.snap = next_id[lpc[t].cell]]]
    /\ next_id' = [next_id EXCEPT ![lpc[t].cell] = increment(@)]
    /\ held' = [held EXCEPT ![t] = release(@, lpc[t].cell, "next_id")]
    /\ UNCHANGED <<value, subscribers, hist, deliveries, nWrites, subAt,
                   unsubIds, nLockCalls, lockRest>>

\* subscribe: `.insert(id, Box::new(callback)); id`
LockSubInsert(t) ==
    /\ At(t, "sub_insert")
    /\ LET c == lpc[t].cell
           id == lpc[t].snap
       IN /\ subscribers' = [subscribers EXCEPT ![c] = @ \cup {id}]
          /\ subAt' = [subAt EXCEPT ![c][id] = nWrites[c]]
    /\ held' = [held EXCEPT ![t] = release(@, lpc[t].cell, "subscribers")]
    /\ Goto(t, "idle")
    /\ UNCHANGED <<value, next_id, hist, deliveries, nWrites, unsubIds,
                   nLockCalls, lockRest>>

\* unsubscribe: `.remove(&id);`
LockUnsubRemove(t) ==
    /\ At(t, "unsub_remove")
    /\ subscribers' = [subscribers EXCEPT ![lpc[t].cell] = remove(@, lpc[t].arg)]
    /\ held' = [held EXCEPT ![t] = release(@, lpc[t].cell, "subscribers")]
    /\ Goto(t, "idle")
    /\ UNCHANGED <<value, next_id, hist, deliveries, nWrites, subAt, unsubIds,
                   nLockCalls, lockRest>>

\* The steps of a call in progress.
LockStep(t) ==
    \/ LockAcquire(t)
    \/ LockGetRead(t)
    \/ LockSetStore(t)
    \/ LockUpdateMutate(t)
    \/ LockSnapshot(t)
    \/ LockCallbacks(t)
    \/ LockSubTake(t)
    \/ LockSubInsert(t)
    \/ LockUnsubRemove(t)

NextLocks ==
    \/ \E t \in Threads, c \in LockCells, o \in LockOps : LockStart(t, c, o)
    \/ \E t \in Threads : LockStep(t)

SpecLocks == Init /\ [][NextLocks]_vars

\* A thread that can take a step of its call eventually takes one: the
\* scheduler runs every runnable thread, and callbacks return.
SpecLocksFair ==
    /\ Init
    /\ [][NextLocks]_vars
    /\ \A t \in Threads : WF_vars(LockStep(t))

\* ================================================================ claims
IsWrite == lastOp.op \in {"set", "update"}
IsRead == lastOp.op \in {"get", "map", "when"}

Last(s) == s[Len(s)]
Front(s) == SubSeq(s, 1, Len(s) - 1)

\* The value each write of a history is specified to produce, starting from
\* the initial value: v for set(v), previous + k for update(+k).
RECURSIVE ExpectedValues(_)
ExpectedValues(ws) ==
    IF ws = <<>> THEN <<>>
    ELSE LET pre == ExpectedValues(Front(ws))
             prev == IF pre = <<>> THEN InitialValue ELSE Last(pre)
             w == Last(ws)
         IN Append(pre, IF w.op = "set" THEN w.arg ELSE prev + w.arg)

ExpectedValue(c) ==
    IF writes[c] = <<>> THEN InitialValue ELSE Last(ExpectedValues(writes[c]))

\* Positions of `calls` that invoke explicit subscriber i / observer o.
ExplicitCallsOf(i) ==
    {k \in 1..Len(calls) : calls[k].kind = "explicit" /\ calls[k].who = i}
ImplicitCallsOf(o) ==
    {k \in 1..Len(calls) : calls[k].kind = "implicit" /\ calls[k].who = o}

\* Number of occurrences of x in s, and the position of its first one.
Count(s, x) == Cardinality({k \in 1..Len(s) : s[k] = x})
FirstPos(s, x) == CHOOSE k \in 1..Len(s) :
                     s[k] = x /\ \A j \in 1..(k - 1) : s[j] # x

\* C1: a get() returns the value produced by the last write to the cell
\* (v for set(v), f(previous) for update(f)), or the initial value when the
\* cell was never written; in particular on a cell that never had a
\* subscriber or a link.
C1_GetReturnsLastWrite ==
    lastOp.op = "get" => ret = ExpectedValue(lastOp.cell)

\* C1 witness: get() after set(2) then update(+10) on a cell without
\* subscribers and links.
C1_Witness ==
    /\ lastOp.op = "get"
    /\ next_id[lastOp.cell] = 0
    /\ trackLog[lastOp.cell] = <<>>
    /\ writes[lastOp.cell] = <<[op |-> "set", arg |-> 2],
                               [op |-> "update", arg |-> 10]>>
    /\ ret = 12

\* C2: every write invokes each subscriber registered at that moment exactly
\* once, with the value the write produced, before it returns; so the log of
\* a registered subscriber is the sequence of values of the writes made
\* since it subscribed.
C2_WriteNotifiesEachSubscriberOnce ==
    /\ IsWrite =>
          /\ \A i \in Ids :
                Cardinality(ExplicitCallsOf(i)) =
                    IF i \in subscribers[lastOp.cell] THEN 1 ELSE 0
          /\ \A k \in 1..Len(calls) :
                calls[k].kind = "explicit" =>
                    calls[k].val = ExpectedValue(lastOp.cell)
    /\ \A c \in Cells : \A i \in subscribers[c] :
          delivered[c][i] =
              SubSeq(ExpectedValues(writes[c]), subscribedAt[c][i] + 1,
                     Len(writes[c]))

\* C2 witness: initial 0, subscribe, set(1), set(2), update(+10): the log is
\* [1, 2, 12] and the value is 12.
C2_Witness ==
    \E c \in Cells :
        /\ lastOp = [op |-> "update", cell |-> c, arg |-> 10]
        /\ 0 \in subscribers[c]
        /\ subscribedAt[c][0] = 0
        /\ writes[c] = <<[op |-> "set", arg |-> 1], [op |-> "set", arg |-> 2],
                         [op |-> "update", arg |-> 10]>>
        /\ delivered[c][0] = <<1, 2, 12>>
        /\ value[c] = 12

\* C3: a write never invokes a callback whose id unsubscribe() has returned
\* for, and it invokes every subscriber that is still registered.
C3_UnsubscribedNeverInvoked ==
    IsWrite =>
        /\ \A i \in unsubscribed[lastOp.cell] : ExplicitCallsOf(i) = {}
        /\ \A i \in subscribers[lastOp.cell] : ExplicitCallsOf(i) # {}

\* C3 witness: a write on a cell with one id unsubscribed and another still
\* registered, which is invoked.
C3_Witness ==
    /\ IsWrite
    /\ unsubscribed[lastOp.cell] # {}
    /\ \E i \in subscribers[lastOp.cell] : ExplicitCallsOf(i) # {}

\* C4 (as claimed): within a write, the explicit subscribers are invoked in
\* ascending order of their ids.
C4_AscendingIdOrder ==
    IsWrite =>
        \A j, k \in 1..Len(calls) :
            (/\ j < k
             /\ calls[j].kind = "explicit"
             /\ calls[k].kind = "explicit") => calls[j].who < calls[k].who

\* C5: within a write, every explicit invocation precedes every implicit
\* one, and the observers are invoked in the order in which their links
\* were first recorded by tracked reads of the cell.
C5_ExplicitBeforeImplicit ==
    IsWrite =>
        \A j, k \in 1..Len(calls) :
            (j < k /\ calls[j].kind = "implicit") =>
                /\ calls[k].kind = "implicit"
                /\ FirstPos(trackLog[lastOp.cell], calls[j].who)
                      < FirstPos(trackLog[lastOp.cell], calls[k].who)

\* C5 witness: a write that invokes an explicit subscriber and two observers.
C5_Witness ==
    /\ IsWrite
    /\ \E k \in 1..Len(calls) : calls[k].kind = "explicit"
    /\ \E j, k \in 1..Len(calls) :
          /\ j # k
          /\ calls[j].kind = "implicit"
          /\ calls[k].kind = "implicit"

\* C6: however often a cell was read under an observer, the cell has at
\* most one link to that observer's callback, exactly one while the
\* observer is alive, and a write to the cell invokes the callback of each
\* live observer that read it exactly once.
C6_OneLinkOneInvalidation ==
    /\ \A c \in Cells : \A o \in Observers :
          /\ Count(local_subscribers[c], o) <= 1
          /\ (Alive(o) /\ Count(trackLog[c], o) > 0) =>
                Count(local_subscribers[c], o) = 1
    /\ IsWrite =>
          \A o \in Observers :
              (Alive(o) /\ Count(trackLog[lastOp.cell], o) > 0) =>
                  Cardinality(ImplicitCallsOf(o)) = 1

\* C6 witness: a write to a cell that was read twice under a live observer.
C6_Witness ==
    /\ IsWrite
    /\ \E o \in Observers :
          /\ Alive(o)
          /\ Count(trackLog[lastOp.cell], o) >= 2
          /\ ImplicitCallsOf(o) # {}

\* C7 (as claimed): once an ObserverContext value of an observer has been
\* dropped, no write invokes that observer's callback.
C7_DisposedNeverInvoked ==
    IsWrite => \A o \in dropped : ImplicitCallsOf(o) = {}

\* C8 (as claimed): dropping an ObserverContext empties the slot only if the
\* slot holds that value's own callback; another observer stays installed.
C8_DropClearsOwnSlotOnly ==
    [][\A o \in Observers :
          (/\ lastOp'.op = "observer_drop"
           /\ lastOp'.arg = o
           /\ steps' = steps + 1
           /\ CURRENT_OBSERVER # o) => CURRENT_OBSERVER' = CURRENT_OBSERVER]_vars

\* C9: the slot holds no callback or the one constructed last (construction
\* overwrites, nothing is stacked), and a link that a read records targets
\* the observer constructed last, never an earlier one.
C9_LastInstalledWins ==
    [][/\ lastOp'.op = "observer_new" => CURRENT_OBSERVER' = lastOp'.arg
       /\ CURRENT_OBSERVER' \in {None, created'}
       /\ \A c \in Cells :
             Range(local_subscribers'[c]) \ Range(local_subscribers[c])
                 \subseteq {created}]_vars

\* C9 witness: H1 and H2 constructed and both alive; a read has recorded a
\* link to H2 and none to H1.
C9_Witness ==
    /\ IsRead
    /\ created = 2
    /\ handles[1] > 0
    /\ handles[2] > 0
    /\ CURRENT_OBSERVER = 2
    /\ local_subscribers[lastOp.cell] = <<2>>

\* C10: a read with an empty slot leaves the links of the cell unchanged; a
\* read with an observer installed appends one link, at the end, exactly
\* when no link of the cell targets that observer; the links of the other
\* cells are unchanged.
C10_ReadTracksOnlyUnderObserver ==
    [][(steps' = steps + 1 /\ lastOp'.op \in {"get", "map", "when"}) =>
          LET c == lastOp'.cell
              old == local_subscribers[c]
              new == local_subscribers'[c]
          IN /\ \A d \in Cells \ {c} :
                    local_subscribers'[d] = local_subscribers[d]
             /\ CURRENT_OBSERVER = None => new = old
             /\ (CURRENT_OBSERVER # None /\ CURRENT_OBSERVER \in Range(old))
                    => new = old
             /\ (CURRENT_OBSERVER # None /\ CURRENT_OBSERVER \notin Range(old))
                    => new = Append(old, CURRENT_OBSERVER)]_vars

\* C10 witness: a read made with an empty slot on a cell that holds a link,
\* next to a cell read under the same observer only once.
C10_Witness ==
    /\ IsRead
    /\ CURRENT_OBSERVER = None
    /\ local_subscribers[lastOp.cell] # <<>>
    /\ Len(trackLog[lastOp.cell]) >= 1

\* Number of trailing entries of a write history that are the same set(v).
RECURSIVE TrailingSameSets(_)
TrailingSameSets(ws) ==
    IF ws = <<>> \/ Last(ws).op # "set" THEN 0
    ELSE IF Len(ws) >= 2 /\ ws[Len(ws) - 1] = Last(ws)
         THEN 1 + TrailingSameSets(Front(ws))
         ELSE 1

\* C11: every set(v) notifies, also when v is the value already stored: it
\* invokes each registered subscriber once with v and each live linked
\* observer once, so k consecutive set(v) leave k copies of v at the end of
\* the log of a subscriber registered throughout.
C11_SetAlwaysNotifies ==
    lastOp.op = "set" =>
        LET c == lastOp.cell
            k == TrailingSameSets(writes[c])
        IN /\ \A i \in subscribers[c] :
                 /\ Cardinality(ExplicitCallsOf(i)) = 1
                 /\ \A j \in ExplicitCallsOf(i) : calls[j].val = lastOp.arg
                 /\ subscribedAt[c][i] <= Len(writes[c]) - k =>
                       /\ Len(delivered[c][i]) >= k
                       /\ \A j \in 1..k :
                             delivered[c][i][Len(delivered[c][i]) - j + 1]
                                 = lastOp.arg
           /\ \A o \in Range(local_subscribers[c]) :
                 Cardinality(ImplicitCallsOf(o)) = 1

\* C11 witness: the second of two consecutive set(v) with the same v, on a
\* cell with a subscriber registered before both and a live linked observer.
C11_Witness ==
    /\ lastOp.op = "set"
    /\ TrailingSameSets(writes[lastOp.cell]) >= 2
    /\ \E i \in subscribers[lastOp.cell] :
          /\ subscribedAt[lastOp.cell][i] <= Len(writes[lastOp.cell]) - 2
          /\ ExplicitCallsOf(i) # {}
    /\ \E o \in Observers : ImplicitCallsOf(o) # {}

\* C12: unsubscribe(id) with an id that is not registered (never issued, or
\* already removed) changes nothing in the cell: value, registered
\* subscribers, id counter and links stay as they are, and nothing is called.
C12_UnsubscribeUnknownIsNoOp ==
    [][(/\ steps' = steps + 1
        /\ lastOp'.op = "unsubscribe"
        /\ lastOp'.arg \notin subscribers[lastOp'.cell]) =>
            /\ UNCHANGED <<value, subscribers, next_id, local_subscribers>>
            /\ calls' = <<>>]_vars

\* C12 witness: unsubscribe was called with an id that was never issued, on
\* a cell that has a registered subscriber.
C12_Witness ==
    /\ lastOp.op = "unsubscribe"
    /\ lastOp.arg >= next_id[lastOp.cell]
    /\ subscribers[lastOp.cell] # {}

\* Handles i and j were both returned by get_or_create for the same type,
\* with no register, remove or clear of that type between the two returns.
SameBundle(i, j) ==
    /\ got[i].via = "get_or_create"
    /\ got[j].via = "get_or_create"
    /\ got[i].type = got[j].type
    /\ got[i].epoch = got[j].epoch

\* C16: two get_or_create calls for one type, with no register, remove or
\* clear of it in between, return handles on the same cells: a get through
\* either handle returns the value last set through the other, and a set
\* notifies the subscribers registered through both.
C16_SameUnderlyingCells ==
    \A i, j \in 1..Len(got) :
        (i # j /\ SameBundle(i, j)) =>
            /\ got[i].g = got[j].g
            /\ sValue[got[i].g] = sValue[got[j].g]
            /\ (sOp.op = "cell_set" /\ sOp.h = i) =>
                  /\ sValue[got[j].g] = sOp.n
                  /\ sNotified >= got[i].subs + got[j].subs

\* C16 witness: a subscriber registered through the first handle is notified
\* by a set through the second, whose value the first handle's cell holds.
C16_Witness ==
    /\ Len(got) >= 2
    /\ SameBundle(1, 2)
    /\ got[1].subs >= 1
    /\ sOp.op = "cell_set"
    /\ sOp.h = 2
    /\ sNotified >= 1
    /\ sValue[got[1].g] = sOp.n
    /\ sOp.n # InitialValue

\* C17: get_or_create for a type without entry registers the instance it
\* returns (has is true, count grows by one); remove makes has false; has
\* reports the presence of the entry; remove and has leave the entries of
\* the other types unchanged.
C17_GetOrCreateRegistersRemoveUnregisters ==
    [][/\ \A t \in Threads :
             (spc[t] # 0 /\ spc'[t] = 0 /\ ~registry_has(stores, spc[t])) =>
                 /\ registry_has(stores', spc[t])
                 /\ stores'[spc[t]] = sOp'.g
                 /\ registry_count(stores') = registry_count(stores) + 1
                 /\ \A T \in Types \ {spc[t]} : stores'[T] = stores[T]
       /\ (nStoreOps' = nStoreOps + 1 /\ sOp'.op = "remove") =>
             /\ ~registry_has(stores', sOp'.type)
             /\ \A T \in Types \ {sOp'.type} : stores'[T] = stores[T]
       /\ (nStoreOps' = nStoreOps + 1 /\ sOp'.op = "has") =>
             /\ sOp'.b = (stores[sOp'.type] # 0)
             /\ stores' = stores]_vars

\* C17 witness: has::<S>() returns false after S was created by
\* get_or_create and then removed, while another type is still registered.
C17_Witness ==
    /\ sOp.op = "has"
    /\ sOp.b = FALSE
    /\ epoch[sOp.type] = 1
    /\ \E i \in 1..Len(got) :
          got[i].type = sOp.type /\ got[i].via = "get_or_create"
    /\ \E T \in Types \ {sOp.type} : registry_has(stores, T)

\* C18: get::<S>() without an entry for S returns no value and registers
\* nothing: the map, has::<S>() and count are as before and no instance is
\* constructed.
C18_GetAbsentCreatesNothing ==
    [][(/\ nStoreOps' = nStoreOps + 1
        /\ sOp'.op = "get"
        /\ ~registry_has(stores, sOp'.type)) =>
            /\ sOp'.g = 0
            /\ stores' = stores
            /\ ~registry_has(stores', sOp'.type)
            /\ registry_count(stores') = registry_count(stores)
            /\ nGroups' = nGroups
            /\ got' = got]_vars

\* C18 witness: get::<S>() returned nothing while another type is registered.
C18_Witness ==
    /\ sOp.op = "get"
    /\ sOp.g = 0
    /\ ~registry_has(stores, sOp.type)
    /\ registry_count(stores) = 1

\* C19 (as claimed): once the concurrent get_or_create calls for a type have
\* returned, with no register, remove or clear of it, every handle they
\* returned is on the instance left registered.
C19_ConcurrentGetOrCreateOneInstance ==
    (\A t \in Threads : spc[t] = 0) =>
        \A i \in 1..Len(got) :
            (got[i].via = "get_or_create" /\ epoch[got[i].type] = 0) =>
                got[i].g = stores[got[i].type]

\* C13: over any interleaving of subscribe and unsubscribe calls of several
\* threads on a cell, the ids given out strictly increase in allocation order
\* (so each differs from every earlier one and none is given out again after
\* its removal), and an id whose subscribe has returned designates the entry
\* of that call until it is passed to unsubscribe.
C13_IdsUniqueAndMonotonic ==
    /\ \A i, j \in 1..Len(issued) :
          (i < j /\ issued[i].cell = issued[j].cell) =>
              issued[i].id < issued[j].id
    /\ \A i \in 1..Len(issued) :
          (<<issued[i].cell, issued[i].id>> \in returned \ removedAfter) =>
              /\ issued[i].id \in subscribers[issued[i].cell]
              /\ subBody[issued[i].cell][issued[i].id] = issued[i].body

\* C13 witness: two threads are inside subscribe on the same cell at once,
\* each past the counter and before the insertion.
C13_Witness ==
    /\ pc[1].cell # 0
    /\ pc[1].cell = pc[2].cell
    /\ pc[1].id # pc[2].id

\* C15 (as claimed): once a panic has poisoned one of a cell's mutexes, every
\* later get, set, update, map, when, subscribe and unsubscribe on that cell
\* panics.
C15_PoisonedCellUnusable ==
    pLast.had => pLast.res = "panic"

\* C14 (as claimed): get() never fails, whether called at top level, from an
\* explicit callback or from an observer callback of a running notification,
\* with or without an observer in the slot.
C14_GetNeverFails ==
    fail.op # "get"

\* C20 (as claimed): a write made by a callback of a running notification
\* stores its value, runs its whole notification and returns, as does the
\* outer write: no write blocks or panics and no callback is passed over.
C20_NestedWriteCompletes ==
    /\ fail.op # "set"
    /\ skipped = {}

\* C21 (as claimed): the sweep of a write invokes the callback of every
\* link that is kept, the cell's links after the write are the earlier links
\* whose observer is alive, in the same order, and no link of an observer
\* whose ObserverContext was dropped is left after the write.
C21_SweepKeepsAliveDropsDisposed ==
    [][(steps' = steps + 1 /\ lastOp'.op \in {"set", "update"}) =>
          /\ local_subscribers'[lastOp'.cell]
                = SelectSeq(local_subscribers[lastOp'.cell], Alive)
          /\ \A o \in Range(local_subscribers'[lastOp'.cell]) :
                ImplicitCall(o) \in Range(calls')
          /\ \A o \in dropped :
                o \notin Range(local_subscribers'[lastOp'.cell])]_vars

\* C24 (as claimed): after any sequence of create_context, set_current,
\* remove_context and clear, the map has a context under "default" and under
\* the name in `current`, so current() returns a context; set_current with
\* an unknown name leaves `current` as it was, and remove_context("default")
\* removes nothing.
C24_ContextManagerInvariant ==
    /\ [](/\ contains_key(contexts, "default")
          /\ contains_key(contexts, current)
          /\ (cmLast.op = "current" => cmLast.res = "ok"))
    /\ [][/\ (cmLast'.op = "set_current"
              /\ ~contains_key(contexts, cmLast'.name)) => current' = current
          /\ (cmLast'.op = "remove_context" /\ cmLast'.name = "default") =>
                contexts' = contexts]_vars

\* No thread is inside a call.
AllIdle == \A t \in Threads : lpc[t].pc = "idle"

\* Subscriber i of cell c was registered before any write started and was
\* never passed to unsubscribe.
RegisteredThroughout(c, i) ==
    /\ i \in subscribers[c]
    /\ subAt[c][i] = 0
    /\ i \notin unsubIds[c]

\* C22: no call holds two of a cell's guards at once, the notification of a
\* write starts with none held (update has released the value guard), and
\* every call started by a thread returns, whatever the other thread does.
C22_OneLockAtATimeAndTermination ==
    /\ [](\A t \in Threads :
            /\ Cardinality(held[t]) <= 1
            /\ lpc[t].pc = "notify_lock_value" => held[t] = {})
    /\ \A t \in Threads : (lpc[t].pc # "idle") ~> (lpc[t].pc = "idle")

\* C22 witness: one thread waits for the subscribers mutex that the other
\* holds while it runs the callbacks of an update.
C22_Witness ==
    /\ lpc[1].pc = "notify_callbacks"
    /\ lpc[1].op = "update"
    /\ lpc[2].pc = "notify_lock_subs"
    /\ lpc[2].cell = lpc[1].cell
    /\ subscribers[lpc[1].cell] # {}

\* C23: with writes issued concurrently and a subscriber registered
\* throughout, the subscriber has been invoked once per write when all the
\* writers have returned; every value passed to a callback is one the cell
\* held between the store of the triggering write and the delivery; and the
\* cell then holds the value stored last.
C23_ConcurrentWritesDeliverStoredValues ==
    \A c \in LockCells :
        /\ \A i \in Ids :
              /\ RegisteredThroughout(c, i) =>
                    /\ Len(deliveries[c][i]) <= nWrites[c]
                    /\ AllIdle => Len(deliveries[c][i]) = nWrites[c]
              /\ \A k \in 1..Len(deliveries[c][i]) :
                    \E j \in (deliveries[c][i][k].from)..(deliveries[c][i][k].upto) :
                        hist[c][j] = deliveries[c][i][k].val
        /\ AllIdle => value[c] = hist[c][Len(hist[c])]

\* C23 witness: two writes overlapped, the subscriber was invoked twice, and
\* one invocation got the value of the other thread's later store.
C23_Witness ==
    \E c \in LockCells, i \in Ids :
        /\ AllIdle
        /\ RegisteredThroughout(c, i)
        /\ nWrites[c] = 2
        /\ Len(deliveries[c][i]) = 2
        /\ \E k \in 1..2 :
              deliveries[c][i][k].val # hist[c][deliveries[c][i][k].from]

====
